---- MODULE Spec2Model ----
(***************************************************************************)
(* A model of the ETF feature-to-prediction pipeline                       *)
(* (src/cli/etf-backtest/scripts): chronological split, train-only         *)
(* standardization, early-stopping training, uncertainty adjustment,       *)
(* non-overlapping evaluation, the lagged backtest and the entry points.   *)
(***************************************************************************)
EXTENDS Integers, Sequences, FiniteSets, Bags, TLC

VARIABLES
    \* split_data (shared.py)
    split_pc, df, train, val, test,
    \* standardize and the forward-inference vector, two runs side by side
    s_pc, s_entry, s_train, s_val, s_test, s_latest,
    X_train, X_val, X_test, mean, std, features_std,
    \* train_model (shared.py); g_* observe the run for the claims
    t_pc, t_len, storage, best_val_loss, patience_counter, best_state, epoch, batch_i,
    epochs_run, g_best_params, g_min_loss, g_streak,
    \* backtest (backtest.py) and run_backtest (run_experiment.py)
    bt_pc, bt_impl, predictions, returns, bt_df, bt_metrics,
    \* the uncertainty estimate and the prediction output of run_experiment.py and
    \* predict.py
    u_pc, u_entry, base_std, z_scores, uncertainty, pred_std, prediction, u_result,
    \* compute_non_overlapping_metrics (run_experiment.py)
    no_pc, y_true, y_pred, forward_days, indices, no_result,
    \* the three scripts from the built frame to their output
    ep_pc, ep_script, ep_rows, ep_train_rows, ep_stdout, ep_exit,
    \* main of run_experiment.py
    m_pc, stdin, env, input_data, feature_ids, seed, m_stdout, m_exit, m_exc,
    m_response, m_entered,
    \* two runs of run_experiment under one seed
    sd_pc, sd_run, sd_seed, rng, sd_params, sd_epoch, sd_best, sd_patience,
    sd_cur, sd_trace, sd_seeded, sd_draws, sd_rng0,
    \* the feature/target frame, from the prices to the three splits
    ff_pc, ff_script, ff_ids, prices, frame, rows, ff_train, ff_val, ff_test

splitVars == <<split_pc, df, train, val, test>>
stdVars == <<s_pc, s_entry, s_train, s_val, s_test, s_latest,
             X_train, X_val, X_test, mean, std, features_std>>
trainVars == <<t_pc, t_len, storage, best_val_loss, patience_counter, best_state, epoch,
               batch_i, epochs_run, g_best_params, g_min_loss, g_streak>>
btVars == <<bt_pc, bt_impl, predictions, returns, bt_df, bt_metrics>>
uncVars == <<u_pc, u_entry, base_std, z_scores, uncertainty, pred_std, prediction, u_result>>
noVars == <<no_pc, y_true, y_pred, forward_days, indices, no_result>>
epVars == <<ep_pc, ep_script, ep_rows, ep_train_rows, ep_stdout, ep_exit>>
mainVars == <<m_pc, stdin, env, input_data, feature_ids, seed, m_stdout, m_exit, m_exc,
              m_response, m_entered>>
seedVars == <<sd_pc, sd_run, sd_seed, rng, sd_params, sd_epoch, sd_best, sd_patience,
              sd_cur, sd_trace, sd_seeded, sd_draws, sd_rng0>>
frameVars == <<ff_pc, ff_script, ff_ids, prices, frame, rows, ff_train, ff_val, ff_test>>
vars == <<splitVars, stdVars, trainVars, btVars, uncVars, noVars, epVars, mainVars, seedVars,
          frameVars>>
\* What the actions of one part leave alone.
notSplitVars ==
    <<stdVars, trainVars, btVars, uncVars, noVars,
      epVars, mainVars, seedVars, frameVars>>
notStdVars ==
    <<splitVars, trainVars, btVars, uncVars, noVars,
      epVars, mainVars, seedVars, frameVars>>
notTrainVars ==
    <<splitVars, stdVars, btVars, uncVars, noVars,
      epVars, mainVars, seedVars, frameVars>>
notBtVars ==
    <<splitVars, stdVars, trainVars, uncVars, noVars,
      epVars, mainVars, seedVars, frameVars>>
notUncVars ==
    <<splitVars, stdVars, trainVars, btVars, noVars,
      epVars, mainVars, seedVars, frameVars>>
notNoVars ==
    <<splitVars, stdVars, trainVars, btVars, uncVars,
      epVars, mainVars, seedVars, frameVars>>
notEpVars ==
    <<splitVars, stdVars, trainVars, btVars, uncVars,
      noVars, mainVars, seedVars, frameVars>>
notMainVars ==
    <<splitVars, stdVars, trainVars, btVars, uncVars,
      noVars, epVars, seedVars, frameVars>>
notSeedVars ==
    <<splitVars, stdVars, trainVars, btVars, uncVars,
      noVars, epVars, mainVars, frameVars>>
notFrameVars ==
    <<splitVars, stdVars, trainVars, btVars, uncVars,
      noVars, epVars, mainVars, seedVars>>

(***************************************************************************)
(* Bounds of the model.                                                    *)
(***************************************************************************)
MaxRows == 181
\* standardize: raw feature values of the train rows are 0..MaxFeat, and the train
\* frame has 1..MaxTrainRows rows.
MaxFeat == 1
MaxTrainRows == 2
\* train_model: validation losses are 0..MaxLoss.
MaxLoss == 9
\* backtest: the test frame has 0..MaxTestRows rows.
MaxTestRows == 4
\* uncertainty: the test-residual std is 0..MaxStd hundredths, a z-score of the
\* latest feature vector is -MaxZ..MaxZ, the point prediction is
\* -MaxPred..MaxPred hundred-thousandths.
MaxStd == 12
MaxZ == 5
MaxPred == 2
\* non-overlapping metrics: horizons 1..MaxHorizon beside FORWARD_DAYS, on test
\* frames of 0..MaxTestRows rows.
MaxHorizon == 3
\* seeded runs: generator states 0..MaxRng, seeds 0..MaxSeed, model parameters
\* (and validation losses) 0..MaxParam.
MaxRng == 15
MaxSeed == 2
MaxParam == 6
\* feature frames: price series of up to MaxPrices rows.
MaxPrices == 520

(***************************************************************************)
(* IEEE-754 binary64 arithmetic on non-negative values, as CPython's float *)
(* does it: a value is m * 2^e with m a natural number of at most 53 bits, *)
(* kept as a sequence of bits, least significant first (TLC's integers are *)
(* 32 bits wide).  Every operation rounds to nearest, ties to even.        *)
(***************************************************************************)
MANT_BITS == 53

Max(a, b) == IF a >= b THEN a ELSE b
Min(a, b) == IF a <= b THEN a ELSE b

Zeros(k) == [i \in 1..k |-> 0]

RECURSIVE BitsOfNat(_)
BitsOfNat(n) == IF n = 0 THEN <<>> ELSE <<n % 2>> \o BitsOfNat(n \div 2)

RECURSIVE NatOfBits(_)
NatOfBits(b) == IF b = <<>> THEN 0 ELSE Head(b) + 2 * NatOfBits(Tail(b))

\* The bits of a hexadecimal numeral given as its digits, most significant first.
RECURSIVE HexBits(_)
HexBits(h) ==
    IF h = <<>> THEN <<>>
    ELSE LET d == h[Len(h)]
         IN  <<d % 2, (d \div 2) % 2, (d \div 4) % 2, (d \div 8) % 2>>
             \o HexBits(SubSeq(h, 1, Len(h) - 1))

\* Leading zero bits dropped.
RECURSIVE Trim(_)
Trim(b) ==
    IF b = <<>> THEN <<>>
    ELSE IF b[Len(b)] = 0 THEN Trim(SubSeq(b, 1, Len(b) - 1)) ELSE b

RECURSIVE AddBits(_, _, _)
AddBits(a, b, c) ==
    IF a = <<>> /\ b = <<>> THEN (IF c = 0 THEN <<>> ELSE <<c>>)
    ELSE LET x == IF a = <<>> THEN 0 ELSE Head(a)
             y == IF b = <<>> THEN 0 ELSE Head(b)
             s == x + y + c
         IN  <<s % 2>> \o AddBits(IF a = <<>> THEN <<>> ELSE Tail(a),
                                  IF b = <<>> THEN <<>> ELSE Tail(b),
                                  s \div 2)

\* a * k for a small natural number k, with an incoming carry c.
RECURSIVE MulBits(_, _, _)
MulBits(a, k, c) ==
    IF a = <<>> THEN BitsOfNat(c)
    ELSE LET s == Head(a) * k + c
         IN  <<s % 2>> \o MulBits(Tail(a), k, s \div 2)

\* The exact value bits * 2^e rounded to a 53-bit significand.
RoundNearestEven(bits, e) ==
    LET b == Trim(bits)
        drop == Len(b) - MANT_BITS
    IN  IF drop <= 0 THEN [m |-> b, e |-> e]
        ELSE LET q == SubSeq(b, drop + 1, Len(b))
                 guard == b[drop]
                 sticky == \E i \in 1..(drop - 1) : b[i] = 1
                 up == guard = 1 /\ (sticky \/ q[1] = 1)
                 r == IF up THEN AddBits(q, <<1>>, 0) ELSE q
             IN  IF Len(r) > MANT_BITS
                 THEN [m |-> Tail(r), e |-> e + drop + 1]
                 ELSE [m |-> r, e |-> e + drop]

\* float(n) * x for an int n (exactly representable) and a float x.
FloatMulInt(n, x) == RoundNearestEven(MulBits(x.m, n, 0), x.e)

\* x + y.
FloatAdd(x, y) ==
    LET e == Min(x.e, y.e)
    IN  RoundNearestEven(AddBits(Zeros(x.e - e) \o x.m, Zeros(y.e - e) \o y.m, 0), e)

\* int(x): truncation toward zero.
IntOfFloat(x) ==
    IF x.e >= 0 THEN NatOfBits(Zeros(x.e) \o x.m)
    ELSE IF -x.e >= Len(x.m) THEN 0
    ELSE NatOfBits(SubSeq(x.m, 1 - x.e, Len(x.m)))

(***************************************************************************)
(* shared.py: configuration.                                               *)
(***************************************************************************)
\* 0.70 is the double 0x1.6666666666666p-1.
TRAIN_RATIO == [m |-> HexBits(<<1, 6, 6, 6, 6, 6, 6, 6, 6, 6, 6, 6, 6, 6>>), e |-> -53]
\* 0.15 is the double 0x1.3333333333333p-3.
VAL_RATIO == [m |-> HexBits(<<1, 3, 3, 3, 3, 3, 3, 3, 3, 3, 3, 3, 3, 3>>), e |-> -55]

(***************************************************************************)
(* shared.py: split_data.                                                  *)
(***************************************************************************)
\* s[a:b] of Python for 0 <= a, 0 <= b.
Slice(s, a, b) == SubSeq(s, a + 1, Min(b, Len(s)))

\* s[a:].
SliceFrom(s, a) == SubSeq(s, a + 1, Len(s))

TrainEnd(n) == IntOfFloat(FloatMulInt(n, TRAIN_RATIO))

ValEnd(n) == IntOfFloat(FloatMulInt(n, FloatAdd(TRAIN_RATIO, VAL_RATIO)))

SplitInit ==
    /\ split_pc = "input"
    /\ \E n \in 0..MaxRows : df = [i \in 1..n |-> i]
    /\ train = <<>>
    /\ val = <<>>
    /\ test = <<>>

split_data ==
    /\ split_pc = "input"
    /\ LET n == Len(df)
           train_end == TrainEnd(n)
           val_end == ValEnd(n)
       IN  /\ train' = Slice(df, 0, train_end)
           /\ val' = Slice(df, train_end, val_end)
           /\ test' = SliceFrom(df, val_end)
    /\ split_pc' = "done"
    /\ UNCHANGED <<df, notSplitVars>>

SplitNext == split_data

\* C3: for every n, train = rows[0 : floor(0.70n)], validation =
\* rows[floor(0.70n) : floor(0.85n)], test = rows[floor(0.85n) :], and the three
\* slices concatenated are the input rows.
C3_SplitAtFloor ==
    split_pc = "done" =>
        LET n == Len(df)
        IN  /\ train = Slice(df, 0, (70 * n) \div 100)
            /\ val = Slice(df, (70 * n) \div 100, (85 * n) \div 100)
            /\ test = SliceFrom(df, (85 * n) \div 100)
            /\ train \o val \o test = df

(***************************************************************************)
(* shared.py / run_experiment.py: standardize, and the standardization of  *)
(* the latest feature vector (compute_prediction, predict.py main).        *)
(*                                                                         *)
(* Numbers are exact: a mean is the fraction num/den, a standard deviation *)
(* is sqrt(rad)/den, and a standardized value (x - mean)/std is            *)
(* num / (den * sqrt(rad)).  A feature matrix is a sequence of rows, a row *)
(* a pair of feature values (feature_cols has two columns here).           *)
(***************************************************************************)
Runs == 1..2
Cols == 1..2

RECURSIVE SumSeq(_)
SumSeq(s) == IF s = <<>> THEN 0 ELSE Head(s) + SumSeq(Tail(s))

Column(X, j) == [i \in 1..Len(X) |-> X[i][j]]

\* X.mean(axis=0)
NpMean(X) == [j \in Cols |-> [num |-> SumSeq(Column(X, j)), den |-> Len(X)]]

\* X.std(axis=0), the population standard deviation sqrt(n * sum(x^2) - sum(x)^2) / n.
NpStd(X) ==
    [j \in Cols |->
        LET c == Column(X, j)
            n == Len(X)
            S == SumSeq(c)
            Q == SumSeq([i \in 1..n |-> c[i] * c[i]])
        IN  [rad |-> n * Q - S * S, den |-> n]]

\* std[std == 0] = 1
ZeroStdToOne(sd) ==
    [j \in Cols |-> IF sd[j].rad = 0 THEN [rad |-> 1, den |-> 1] ELSE sd[j]]

\* (x - mean) / std for one row x.
StandardizeRow(x, mu, sd) ==
    [j \in Cols |-> [num |-> (x[j] * mu[j].den - mu[j].num) * sd[j].den,
                     den |-> mu[j].den,
                     rad |-> sd[j].rad]]

\* (X - mean) / std, broadcast over the rows of X.
StandardizeRows(X, mu, sd) == [i \in 1..Len(X) |-> StandardizeRow(X[i], mu, sd)]

\* A mutant of NpTrainStats: the statistics taken over train and validation rows.
NpStatsWithVal(Xtr, Xva) ==
    [mean |-> NpMean(Xtr \o Xva), std |-> ZeroStdToOne(NpStd(Xtr \o Xva))]

\* shared.py 120-123: mean and std from the train matrix (Xva is in scope, unused).
NpTrainStats(Xtr, Xva) ==
    [mean |-> NpMean(Xtr), std |-> ZeroStdToOne(NpStd(Xtr))]

\* shared.py: standardize (the targets are passed through and left out here).
standardize(tr, va, te) ==
    LET st == NpTrainStats(tr, va)
    IN  [X_train |-> StandardizeRows(tr, st.mean, st.std),
         X_val |-> StandardizeRows(va, st.mean, st.std),
         X_test |-> StandardizeRows(te, st.mean, st.std),
         mean |-> st.mean,
         std |-> st.std]

\* run_experiment.py: its own copy of standardize.
standardize_experiment(tr, va, te) ==
    LET mu == NpMean(tr)
        sd == ZeroStdToOne(NpStd(tr))
    IN  [X_train |-> StandardizeRows(tr, mu, sd),
         X_val |-> StandardizeRows(va, mu, sd),
         X_test |-> StandardizeRows(te, mu, sd),
         mean |-> mu,
         std |-> sd]

FeatureVals == 0..MaxFeat
TrainRowSet == FeatureVals \X FeatureVals
\* Held-out frames (validation rows, test rows): inside the range of the train
\* values, or beyond it.
HeldOutFrames ==
    <<[val |-> <<<<0, 0>>>>, test |-> <<<<0, MaxFeat>>>>],
      [val |-> <<<<MaxFeat + 1, 0>>>>, test |-> <<<<0, 0>>>>],
      [val |-> <<<<MaxFeat + 1, MaxFeat + 2>>>>, test |-> <<<<MaxFeat + 2, MaxFeat + 1>>>>]>>
\* The latest row of the raw frame: inside the train range, or beyond it.
LatestRowSet == {<<0, MaxFeat>>, <<MaxFeat + 2, MaxFeat + 1>>}

None == "None"

StdInit ==
    /\ s_entry \in {"run_experiment", "predict"}
    /\ s_pc = [r \in Runs |-> "split"]
    /\ \E n \in 1..MaxTrainRows : s_train \in [1..n -> TrainRowSet]
    /\ \E h \in [Runs -> DOMAIN HeldOutFrames] :
          /\ h[1] < h[2]
          /\ s_val = [r \in Runs |-> HeldOutFrames[h[r]].val]
          /\ s_test = [r \in Runs |-> HeldOutFrames[h[r]].test]
    /\ s_latest \in LatestRowSet
    /\ X_train = [r \in Runs |-> None]
    /\ X_val = [r \in Runs |-> None]
    /\ X_test = [r \in Runs |-> None]
    /\ mean = [r \in Runs |-> None]
    /\ std = [r \in Runs |-> None]
    /\ features_std = [r \in Runs |-> None]

\* run_experiment.py 277-279 / predict.py 134-136: the call of standardize.
Standardize(r) ==
    /\ s_pc[r] = "split"
    /\ \A q \in Runs : q < r => s_pc[q] = "predicted"
    /\ LET out == IF s_entry = "predict"
                  THEN standardize(s_train, s_val[r], s_test[r])
                  ELSE standardize_experiment(s_train, s_val[r], s_test[r])
       IN  /\ X_train' = [X_train EXCEPT ![r] = out.X_train]
           /\ X_val' = [X_val EXCEPT ![r] = out.X_val]
           /\ X_test' = [X_test EXCEPT ![r] = out.X_test]
           /\ mean' = [mean EXCEPT ![r] = out.mean]
           /\ std' = [std EXCEPT ![r] = out.std]
    /\ s_pc' = [s_pc EXCEPT ![r] = "standardized"]
    /\ UNCHANGED <<s_entry, s_train, s_val, s_test, s_latest, features_std, notStdVars>>

\* run_experiment.py 153: features_std = (features - mean) / std in compute_prediction.
compute_prediction_standardize(r) ==
    /\ s_entry = "run_experiment"
    /\ s_pc[r] = "standardized"
    /\ features_std' = [features_std EXCEPT ![r] = StandardizeRow(s_latest, mean[r], std[r])]
    /\ s_pc' = [s_pc EXCEPT ![r] = "predicted"]
    /\ UNCHANGED <<s_entry, s_train, s_val, s_test, s_latest,
                   X_train, X_val, X_test, mean, std, notStdVars>>

\* predict.py 161: latest_features_std = (latest_features - mean) / std in main.
predict_main_standardize(r) ==
    /\ s_entry = "predict"
    /\ s_pc[r] = "standardized"
    /\ features_std' = [features_std EXCEPT ![r] = StandardizeRow(s_latest, mean[r], std[r])]
    /\ s_pc' = [s_pc EXCEPT ![r] = "predicted"]
    /\ UNCHANGED <<s_entry, s_train, s_val, s_test, s_latest,
                   X_train, X_val, X_test, mean, std, notStdVars>>

StdNext ==
    \E r \in Runs :
        \/ Standardize(r)
        \/ compute_prediction_standardize(r)
        \/ predict_main_standardize(r)

\* C1: the per-feature mean and std returned by standardize are the same for two
\* inputs with the same train rows and different validation and test rows (they
\* are the statistics of the train rows), and the stored mean and std are the
\* ones applied to the train, validation and test matrices and to the latest
\* forward-inference feature vector.
C1_TrainOnlyStats ==
    /\ \A r \in Runs :
          s_pc[r] # "split" =>
            /\ mean[r] = NpMean(s_train)
            /\ std[r] = ZeroStdToOne(NpStd(s_train))
            /\ X_train[r] = StandardizeRows(s_train, mean[r], std[r])
            /\ X_val[r] = StandardizeRows(s_val[r], mean[r], std[r])
            /\ X_test[r] = StandardizeRows(s_test[r], mean[r], std[r])
            /\ s_pc[r] = "predicted" =>
                  features_std[r] = StandardizeRow(s_latest, mean[r], std[r])
    /\ (s_pc[1] # "split" /\ s_pc[2] # "split") =>
          (mean[1] = mean[2] /\ std[1] = std[2])

\* Both runs have standardized their frames and the latest vector; their
\* validation and test rows differ and lie outside the range of the train rows.
C1_Witness ==
    /\ \A r \in Runs : s_pc[r] = "predicted"
    /\ s_val[1] # s_val[2]
    /\ s_test[1] # s_test[2]
    /\ s_val[2][1][1] > MaxFeat
    /\ s_latest[1] > MaxFeat
    /\ Len(s_train) > 1

(***************************************************************************)
(* shared.py: train_model.                                                 *)
(*                                                                         *)
(* The parameters of the MLP live in one tensor storage that               *)
(* optimizer.step() updates in place; its value is the number of           *)
(* optimizer steps applied so far (every step leaves new parameters).      *)
(* model.state_dict() returns references to that storage, not a copy, and  *)
(* model.load_state_dict(d) copies d's tensors into it.  Validation losses *)
(* are drawn from 0..MaxLoss; only their order matters to the loop.  The   *)
(* observer g_best_params is -1 until an epoch has been validated.         *)
(***************************************************************************)
EPOCHS == 100
PATIENCE == 10
BATCH_SIZE == 32

Inf == MaxLoss + 1
Losses == 0..MaxLoss

\* The storage of model.parameters().
MODEL_PARAMS == "model.parameters"

\* len(X_train_t): one batch, or a second, partial batch.
TrainLens == {BATCH_SIZE, BATCH_SIZE + 1}

\* shared.py 169: n_batches = (len(X_train_t) + BATCH_SIZE - 1) // BATCH_SIZE
NBatches(len) == (len + BATCH_SIZE - 1) \div BATCH_SIZE

\* shared.py 195: model.state_dict(), a dictionary of references to the live tensors.
StateDict(model) == model

\* shared.py 203: model.load_state_dict(state), a copy of state's tensors into
\* the model's storage.
LoadStateDict(st, model, state) == [st EXCEPT ![model] = st[state]]

\* shared.py 184: optimizer.step(), in place.
OptimizerStep(st, model) == [st EXCEPT ![model] = st[model] + 1]

\* shared.py 192: val_loss < best_val_loss
Improved(val_loss, best) == val_loss < best

\* A mutant of PatienceExhausted: one more epoch is allowed.
PatienceExceeded(counter) == counter > PATIENCE

\* shared.py 198: patience_counter >= PATIENCE
PatienceExhausted(counter) == counter >= PATIENCE

TrainInit ==
    /\ t_pc = "batch"
    /\ t_len \in TrainLens
    /\ storage = [t \in {MODEL_PARAMS} |-> 0]
    /\ best_val_loss = Inf
    /\ patience_counter = 0
    /\ best_state = None
    /\ epoch = 0
    /\ batch_i = 0
    /\ epochs_run = 0
    /\ g_best_params = -1
    /\ g_min_loss = Inf
    /\ g_streak = 0

\* shared.py 175-184: one mini-batch step of the current epoch.
train_batch ==
    /\ t_pc = "batch"
    /\ batch_i < NBatches(t_len)
    /\ storage' = OptimizerStep(storage, MODEL_PARAMS)
    /\ batch_i' = batch_i + 1
    /\ UNCHANGED <<t_pc, t_len, best_val_loss, patience_counter, best_state, epoch,
                   epochs_run, g_best_params, g_min_loss, g_streak, notTrainVars>>

\* shared.py 186-200: validation at the end of the epoch, the best-state and
\* patience bookkeeping, the early-stopping break and the step of the for loop.
validate_epoch ==
    /\ t_pc = "batch"
    /\ batch_i = NBatches(t_len)
    /\ \E val_loss \in Losses :
         LET improved == Improved(val_loss, best_val_loss)
             counter == IF improved THEN 0 ELSE patience_counter + 1
             break == ~improved /\ PatienceExhausted(counter)
         IN  /\ patience_counter' = counter
             /\ best_val_loss' = IF improved THEN val_loss ELSE best_val_loss
             /\ best_state' = IF improved THEN StateDict(MODEL_PARAMS) ELSE best_state
             /\ IF break \/ epoch + 1 >= EPOCHS
                THEN /\ t_pc' = "after_loop"
                     /\ UNCHANGED <<epoch, batch_i>>
                ELSE /\ t_pc' = "batch"
                     /\ epoch' = epoch + 1
                     /\ batch_i' = 0
             \* observers: the parameters at the end of the epoch with the lowest
             \* validation loss, and the run of epochs without a strict improvement
             /\ IF val_loss < g_min_loss
                THEN /\ g_min_loss' = val_loss
                     /\ g_best_params' = storage[MODEL_PARAMS]
                     /\ g_streak' = 0
                ELSE /\ g_streak' = g_streak + 1
                     /\ UNCHANGED <<g_min_loss, g_best_params>>
    /\ epochs_run' = epochs_run + 1
    /\ UNCHANGED <<t_len, storage, notTrainVars>>

\* shared.py 202-205: if best_state: model.load_state_dict(best_state); return model
load_best_and_return ==
    /\ t_pc = "after_loop"
    /\ storage' = IF best_state # None
                  THEN LoadStateDict(storage, MODEL_PARAMS, best_state)
                  ELSE storage
    /\ t_pc' = "returned"
    /\ UNCHANGED <<t_len, best_val_loss, patience_counter, best_state, epoch, batch_i,
                   epochs_run, g_best_params, g_min_loss, g_streak, notTrainVars>>

TrainNext == train_batch \/ validate_epoch \/ load_best_and_return

\* C2: the parameters of the model train_model returns are the parameters the
\* model held at the end of the epoch with the lowest validation loss, not those
\* left by the last epoch that ran.
C2_ReturnsBestSnapshot ==
    (t_pc = "returned" /\ g_best_params >= 0) =>
        storage[MODEL_PARAMS] = g_best_params

\* The epoch loop has been left.
C5_LoopStopped == t_pc \in {"after_loop", "returned"}

\* The patience counter is the run of epochs without strict improvement; the loop
\* runs while it is below PATIENCE and fewer than EPOCHS epochs ran, and is left
\* with the counter at PATIENCE or after exactly EPOCHS epochs.
C5_StopRule ==
    /\ patience_counter = g_streak
    /\ t_pc = "batch" => (g_streak < PATIENCE /\ epochs_run < EPOCHS /\ epochs_run = epoch)
    /\ C5_LoopStopped =>
          \/ g_streak = PATIENCE /\ epochs_run <= EPOCHS
          \/ g_streak < PATIENCE /\ epochs_run = EPOCHS

\* C5: the epoch loop always terminates; it stops at the end of the first epoch
\* that completes PATIENCE consecutive epochs without a strict improvement of the
\* best validation loss (the counter is 0 after every strict improvement), and
\* otherwise after exactly EPOCHS epochs; no training step runs after the stop.
C5_EpochLoopTerminates ==
    /\ []C5_StopRule
    /\ <>(t_pc = "returned")
    /\ [][C5_LoopStopped => (epochs_run' = epochs_run /\ batch_i' = batch_i
                               /\ C5_LoopStopped')]_vars

\* The loop ran all EPOCHS epochs without exhausting the patience.
C5_Witness ==
    /\ t_pc = "returned"
    /\ epochs_run = EPOCHS
    /\ patience_counter < PATIENCE

(***************************************************************************)
(* backtest.py: backtest, and run_experiment.py: run_backtest.             *)
(*                                                                         *)
(* A column is a sequence of cells; a cell is a number or NaN (pandas'     *)
(* missing value).  Returns and costs are in basis points (1e-4).  An      *)
(* equity value is a product of factors 1 + r, kept as the bag of its      *)
(* returns r # 0: the empty bag is 1.0.                                    *)
(***************************************************************************)
COST_BPS == 5

NaN == [na |-> TRUE, v |-> 0]
Num(x) == [na |-> FALSE, v |-> x]

\* (df["pred"] > 0).astype(int): a comparison with NaN is False.
SignalOf(pred) ==
    [i \in 1..Len(pred) |-> IF ~pred[i].na /\ pred[i].v > 0 THEN Num(1) ELSE Num(0)]

\* A mutant of Shift1: the column is not lagged.
NoShift(col) == col

\* Series.shift(1): row t takes the value of row t-1, row 0 is NaN.
Shift1(col) == [i \in 1..Len(col) |-> IF i = 1 THEN NaN ELSE col[i - 1]]

\* Series.fillna(x)
FillNa(col, x) == [i \in 1..Len(col) |-> IF col[i].na THEN Num(x) ELSE col[i]]

\* a * b and a - b, row by row: NaN if either side is NaN (0 * NaN is NaN)
Times(a, b) ==
    [i \in 1..Len(a) |-> IF a[i].na \/ b[i].na THEN NaN ELSE Num(a[i].v * b[i].v)]
Minus(a, b) ==
    [i \in 1..Len(a) |-> IF a[i].na \/ b[i].na THEN NaN ELSE Num(a[i].v - b[i].v)]

\* Series.diff().abs(): |x[t] - x[t-1]|, row 0 is NaN
AbsDiff(col) ==
    [i \in 1..Len(col) |->
        IF i = 1 \/ col[i].na \/ col[Max(i - 1, 1)].na THEN NaN
        ELSE Num(IF col[i].v >= col[i - 1].v THEN col[i].v - col[i - 1].v
                 ELSE col[i - 1].v - col[i].v)]

\* A mutant of TradeCost: a charge of COST_BPS on every row that holds a position.
TradeCostHeld(position) ==
    [i \in 1..Len(position) |-> Num(position[i].v * COST_BPS)]

\* backtest.py 64-65, run_experiment.py 97-98: trade = position.diff().abs()
\* .fillna(0), cost = trade * (COST_BPS / 10000)
TradeCost(position) ==
    LET trade == FillNa(AbsDiff(position), 0)
    IN  [i \in 1..Len(trade) |-> Num(trade[i].v * COST_BPS)]

\* df["price"].pct_change() of the test frame whose price changes are ret: row
\* 0 has no earlier row in the frame and is NaN.
DailyRet(ret) == [i \in 1..Len(ret) |-> IF i = 1 THEN NaN ELSE Num(ret[i])]

\* df["target"] of backtest.py's test frame: the next-day return, defined at
\* every row (build_features dropped the others).
TargetCol(ret) == [i \in 1..Len(ret) |-> Num(ret[i])]

\* The product of (1 + net[k]) over the rows k <= i that are not NaN
RECURSIVE ProductTo(_, _)
ProductTo(net, i) ==
    IF i = 0 THEN EmptyBag
    ELSE IF net[i].na \/ net[i].v = 0 THEN ProductTo(net, i - 1)
    ELSE ProductTo(net, i - 1) (+) SetToBag({net[i].v})

\* (1 + net).cumprod(): the running product, skipping NaN rows, NaN at them
CumProd(net) ==
    [i \in 1..Len(net) |->
        IF net[i].na THEN [na |-> TRUE, v |-> EmptyBag]
        ELSE [na |-> FALSE, v |-> ProductTo(net, i)]]

\* Series.dropna().values
DropNaValues(col) == SelectSeq(col, LAMBDA c : ~c.na)

\* backtest.py 52-69: the columns backtest adds to the test frame
backtest_columns(pred, ret) ==
    LET signal == SignalOf(pred)
        position == FillNa(Shift1(signal), 0)
        strat_ret == Times(position, TargetCol(ret))
        cost == TradeCost(position)
        strat_ret_net == Minus(strat_ret, cost)
    IN  [pred |-> pred, signal |-> signal, position |-> position,
         strat_ret |-> strat_ret, cost |-> cost, strat_ret_net |-> strat_ret_net,
         equity |-> CumProd(strat_ret_net)]

\* run_experiment.py 82-102: the columns run_backtest adds to the test frame
run_backtest_columns(pred, ret) ==
    LET signal == SignalOf(pred)
        position == FillNa(Shift1(signal), 0)
        strat_ret == Times(position, DailyRet(ret))
        cost == TradeCost(position)
        strat_ret_net == Minus(strat_ret, cost)
    IN  [pred |-> pred, signal |-> signal, position |-> position,
         strat_ret |-> strat_ret, cost |-> cost, strat_ret_net |-> strat_ret_net,
         equity |-> CumProd(strat_ret_net)]

NoMetrics == [status |-> "none", initial_equity |-> EmptyBag, total_return |-> EmptyBag,
              n_days |-> 0]

\* total_return = equity[-1] / equity[0] - 1, as the bag of the quotient
TotalReturn(equity) == equity[Len(equity)].v (-) equity[1].v

\* backtest.py 75-109: compute_metrics on the frame; equity[-1] of an empty
\* frame raises IndexError.
compute_metrics_of(frame_) ==
    IF Len(frame_.equity) = 0
    THEN [NoMetrics EXCEPT !.status = "IndexError"]
    ELSE [status |-> "ok", initial_equity |-> frame_.equity[1].v,
          total_return |-> TotalReturn(frame_.equity), n_days |-> Len(frame_.strat_ret_net)]

\* run_experiment.py 104-128: the metrics of run_backtest, on the rows that
\* are not NaN
run_backtest_metrics(frame_) ==
    LET returns_ == DropNaValues(frame_.strat_ret_net)
        equity == DropNaValues(frame_.equity)
    IN  IF Len(equity) < 2
        THEN [NoMetrics EXCEPT !.status = "too_few"]
        ELSE [status |-> "ok", initial_equity |-> equity[1].v,
              total_return |-> TotalReturn(equity), n_days |-> Len(returns_)]

\* The returns of the test rows, in basis points: flat, rising, or
\* alternating between a rise and a fall.
ReturnPatterns == {"flat", "up", "swing"}
ReturnsOf(pattern, n) ==
    [i \in 1..n |->
        CASE pattern = "flat" -> 0
          [] pattern = "up" -> 100
          [] pattern = "swing" -> IF i % 2 = 0 THEN 100 ELSE -50]

\* Predictions of the model on the test rows: negative, zero, positive or NaN.
PredSet == {Num(-1), Num(0), Num(1), NaN}

BtInit ==
    /\ bt_pc = "called"
    /\ bt_impl \in {"backtest", "run_backtest"}
    /\ \E n \in 0..MaxTestRows :
          /\ predictions \in [1..n -> PredSet]
          /\ \E pattern \in ReturnPatterns : returns = ReturnsOf(pattern, n)
    /\ bt_df = None
    /\ bt_metrics = NoMetrics

\* backtest.py 46-71
backtest ==
    /\ bt_pc = "called"
    /\ bt_impl = "backtest"
    /\ bt_df' = backtest_columns(predictions, returns)
    /\ bt_pc' = "done"
    /\ UNCHANGED <<bt_impl, predictions, returns, bt_metrics, notBtVars>>

\* backtest.py 75-109, called at backtest.py 157 on the frame backtest returned
compute_metrics ==
    /\ bt_pc = "done"
    /\ bt_impl = "backtest"
    /\ bt_metrics' = compute_metrics_of(bt_df)
    /\ bt_pc' = "metrics"
    /\ UNCHANGED <<bt_impl, predictions, returns, bt_df, notBtVars>>

\* run_experiment.py 79-128
run_backtest ==
    /\ bt_pc = "called"
    /\ bt_impl = "run_backtest"
    /\ bt_df' = run_backtest_columns(predictions, returns)
    /\ bt_metrics' = run_backtest_metrics(run_backtest_columns(predictions, returns))
    /\ bt_pc' = "done"
    /\ UNCHANGED <<bt_impl, predictions, returns, notBtVars>>

BtNext == backtest \/ run_backtest \/ compute_metrics

\* C4: in backtest and in run_backtest the position at row 0 is 0 whatever the
\* signal at row 0, and at every row t >= 1 the position is the signal of row
\* t-1, the signal being 1 if the prediction is > 0 and 0 otherwise; so no
\* signal reaches the position of its own or an earlier row.
C4_PositionLagsSignal ==
    bt_pc = "done" =>
        /\ Len(bt_df.position) = Len(predictions)
        /\ \A t \in 1..Len(predictions) :
              bt_df.position[t] =
                  IF t = 1 THEN Num(0)
                  ELSE IF ~predictions[t - 1].na /\ predictions[t - 1].v > 0
                       THEN Num(1) ELSE Num(0)

\* run_backtest has run on predictions whose first signal is 1 and whose second
\* is 0: the position is 0 at row 0 and 1 at row 1.
C4_Witness ==
    /\ bt_pc = "done"
    /\ bt_impl = "run_backtest"
    /\ Len(predictions) >= 2
    /\ bt_df.signal[1] = Num(1)
    /\ bt_df.signal[2] = Num(0)
    /\ bt_df.position[1] = Num(0)
    /\ bt_df.position[2] = Num(1)

\* Whether the position of row t (1-based, t >= 2) differs from the row before
PositionChanged(t) == bt_df.position[t] # bt_df.position[t - 1]

\* C15: in backtest and in run_backtest a cost of exactly 5 basis points is
\* subtracted from the net return of row t exactly when the position of row t
\* differs from that of row t-1; row 0 and every row with an unchanged position
\* carry no cost, so there are as many charges as position changes.
C15_CostOnPositionChange ==
    bt_pc \in {"done", "metrics"} =>
        LET n == Len(predictions)
        IN  /\ \A t \in 1..n :
                  /\ bt_df.cost[t] = IF t >= 2 /\ PositionChanged(t) THEN Num(5) ELSE Num(0)
                  /\ ~bt_df.strat_ret[t].na =>
                        bt_df.strat_ret_net[t] = Num(bt_df.strat_ret[t].v - bt_df.cost[t].v)
            /\ Cardinality({t \in 1..n : bt_df.cost[t].v # 0})
                  = Cardinality({t \in 2..n : PositionChanged(t)})

\* A position that is opened at row 1 and closed at row 2 in a rising market:
\* two charges of 5 basis points.
C15_Witness ==
    /\ bt_pc = "done"
    /\ bt_impl = "run_backtest"
    /\ Len(predictions) >= 4
    /\ bt_df.position[2] = Num(1)
    /\ bt_df.position[3] = Num(0)
    /\ bt_df.position[4] = Num(0)
    /\ bt_df.strat_ret_net[2] = Num(95)
    /\ bt_df.strat_ret_net[3] = Num(-5)
    /\ bt_df.strat_ret_net[4] = Num(0)

\* The product of (1 + net return) over the rows after row 0 of the frame
NetAfterRowZero ==
    LET net == bt_df.strat_ret_net
        rest == [i \in 1..(Len(net) - 1) |-> net[i + 1]]
    IN  ProductTo(rest, Len(rest))

\* C18: in backtest and in run_backtest the equity curve the metrics use is the
\* cumulative product of (1 + net return) starting at 1.0: its first value is
\* exactly 1.0, so the total return is the final equity - 1 and accounts for the
\* net return of every row after row 0.
C18_EquityStartsAtOne ==
    bt_metrics.status = "ok" =>
        /\ bt_metrics.initial_equity = EmptyBag
        /\ bt_metrics.total_return = NetAfterRowZero

(***************************************************************************)
(* run_experiment.py: compute_uncertainty_adjusted and compute_prediction; *)
(* predict.py: estimate_uncertainty and the result built by main.          *)
(*                                                                         *)
(* Fixed-point units.  The residual std (baseStd, pred_std) is in          *)
(* hundredths, a z-score is a whole number, the extrapolation multiplier   *)
(* is in tenths, the adjusted std is in thousandths (hundredths times      *)
(* tenths), the point prediction and the bounds of run_experiment's        *)
(* interval are in units of 1e-5, and the percentages of predict.py's      *)
(* artifact, rounded to two decimals, are in units of 0.01 %.              *)
(***************************************************************************)
\* run_experiment.py 242: MARKET_FLOOR = 0.10, in thousandths.
MARKET_FLOOR == 100
\* run_experiment.py 239: the z-score beyond which the estimate extrapolates.
Z_LIMIT == 2
\* run_experiment.py 165 / predict.py 175: 1.96, in hundredths.
Z95 == 196

Abs(x) == IF x < 0 THEN -x ELSE x

\* z_scores.max() of np.abs(...)
MaxAbs(z) == CHOOSE m \in {Abs(z[j]) : j \in DOMAIN z} : \A j \in DOMAIN z : Abs(z[j]) <= m

\* A mutant of ExtrapolationMult: the penalty starts at z = 3.
ExtrapolationMultLate(max_z) == 10 + Max(0, max_z - (Z_LIMIT + 1))

\* run_experiment.py 239: 1.0 + 0.1 * max(0, max_z - 2), in tenths.
ExtrapolationMult(max_z) == 10 + Max(0, max_z - Z_LIMIT)

\* run_experiment.py 243: max(base_std * extrapolation_mult, MARKET_FLOOR)
AdjustedStd(b, mult) == Max(b * mult, MARKET_FLOOR)

\* run_experiment.py 233-250, from the residual std and the z-scores.
UncertaintyAdjusted(b, z) ==
    LET max_z == MaxAbs(z)
        extrapolation_mult == ExtrapolationMult(max_z)
    IN  [baseStd |-> b,
         adjustedStd |-> AdjustedStd(b, extrapolation_mult),
         extrapolationMultiplier |-> extrapolation_mult,
         isExtrapolating |-> max_z > Z_LIMIT]

\* A mutant of IntervalStd: the interval is built on the unadjusted std.
IntervalStdBase(unc) == unc.baseStd * 10

\* run_experiment.py 161: adjusted_std = uncertainty["adjustedStd"]
IntervalStd(unc) == unc.adjustedStd

\* run_experiment.py 163-168: the prediction block; prediction is in units of 1e-5.
PredictionBlock(pred, unc) ==
    [pred12mReturn |-> pred,
     ci95Low |-> pred - Z95 * IntervalStd(unc),
     ci95High |-> pred + Z95 * IntervalStd(unc),
     uncertainty |-> unc]

\* round(x, 2) of a percentage x given in thousandths of a percent: the nearest
\* hundredth, ties to even.
Round2(x) ==
    LET q == x \div 10
        r == x % 10
    IN  IF r < 5 THEN q
        ELSE IF r > 5 THEN q + 1
        ELSE IF q % 2 = 0 THEN q ELSE q + 1

\* predict.py 173-177: the percentages of the artifact; std in hundredths.
Artifact(pred, std100) ==
    [predicted_return_pct |-> Round2(pred),
     confidence_interval_95 |->
        [low |-> Round2(pred - Z95 * std100 * 10),
         high |-> Round2(pred + Z95 * std100 * 10)]]

Predictions == -MaxPred..MaxPred

UncInit ==
    /\ u_pc = "evaluated"
    /\ u_entry \in {"run_experiment", "predict"}
    /\ base_std \in 0..MaxStd
    /\ z_scores \in [Cols -> -MaxZ..MaxZ]
    /\ uncertainty = None
    /\ pred_std = -1
    /\ prediction = 0
    /\ u_result = None

\* run_experiment.py 304: uncertainty = compute_uncertainty_adjusted(...)
compute_uncertainty_adjusted ==
    /\ u_pc = "evaluated"
    /\ u_entry = "run_experiment"
    /\ uncertainty' = UncertaintyAdjusted(base_std, z_scores)
    /\ u_pc' = "uncertainty"
    /\ UNCHANGED <<u_entry, base_std, z_scores, pred_std, prediction, u_result, notUncVars>>

\* predict.py 153: pred_std = estimate_uncertainty(model, X_test, y_test), the
\* std of the test residuals as it is.
estimate_uncertainty ==
    /\ u_pc = "evaluated"
    /\ u_entry = "predict"
    /\ pred_std' = base_std
    /\ u_pc' = "uncertainty"
    /\ UNCHANGED <<u_entry, base_std, z_scores, uncertainty, prediction, u_result, notUncVars>>

\* run_experiment.py 310: prediction = compute_prediction(...)
compute_prediction ==
    /\ u_pc = "uncertainty"
    /\ u_entry = "run_experiment"
    /\ prediction' \in Predictions
    /\ u_result' = PredictionBlock(prediction', uncertainty)
    /\ u_pc' = "output"
    /\ UNCHANGED <<u_entry, base_std, z_scores, uncertainty, pred_std, notUncVars>>

\* predict.py 164-193: the forward prediction and the result written out.
predict_main_result ==
    /\ u_pc = "uncertainty"
    /\ u_entry = "predict"
    /\ prediction' \in Predictions
    /\ u_result' = Artifact(prediction', pred_std)
    /\ u_pc' = "output"
    /\ UNCHANGED <<u_entry, base_std, z_scores, uncertainty, pred_std, notUncVars>>

UncNext ==
    \/ compute_uncertainty_adjusted
    \/ estimate_uncertainty
    \/ compute_prediction
    \/ predict_main_result

\* C7: for a base residual std b and a maximum absolute z-score z,
\* compute_uncertainty_adjusted returns extrapolationMultiplier = 1 + 0.1 *
\* max(0, z - 2) and adjustedStd = max(b * multiplier, 0.10); so adjustedStd is
\* at least 0.10, the multiplier is 1 when z <= 2, b = 0.05 with z = 1 gives
\* 0.10, and z = 5 gives the multiplier 1.3.
C7_AdjustedStdFormula ==
    (u_entry = "run_experiment" /\ u_pc \in {"uncertainty", "output"}) =>
        LET b == base_std
            z == MaxAbs(z_scores)
            m == uncertainty.extrapolationMultiplier
            a == uncertainty.adjustedStd
        IN  /\ uncertainty.baseStd = b
            /\ m = 10 + (IF z > 2 THEN z - 2 ELSE 0)
            /\ a = (IF b * m >= 100 THEN b * m ELSE 100)
            /\ a >= 100
            /\ z <= 2 => m = 10
            /\ (b = 5 /\ z = 1) => a = 100
            /\ z = 5 => m = 13

\* The uncertainty of a residual std of 0.10 at a maximum z-score of 5: the
\* multiplier is 1.3 and the adjusted std 0.13, above the floor.
C7_Witness ==
    /\ u_entry = "run_experiment"
    /\ u_pc = "uncertainty"
    /\ base_std = 10
    /\ MaxAbs(z_scores) = 5
    /\ uncertainty.extrapolationMultiplier = 13
    /\ uncertainty.adjustedStd = 130

\* The adjusted std the spec describes, from the state's residual std and z-scores.
C6_SpecAdjustedStd ==
    LET z == MaxAbs(z_scores)
        m == 10 + (IF z > 2 THEN z - 2 ELSE 0)
    IN  IF base_std * m >= 100 THEN base_std * m ELSE 100

\* C6 as claimed: in every prediction output (the runner's prediction block and
\* the standalone artifact) the 95% interval is the point estimate +/- 1.96
\* times the adjusted std (after the extrapolation multiplier and the 10% floor),
\* so its half-width is at least 1.96 * 0.10.
C6_EveryIntervalOnAdjustedStd ==
    u_pc = "output" =>
        IF u_entry = "run_experiment"
        THEN /\ u_result.ci95Low = prediction - 196 * C6_SpecAdjustedStd
             /\ u_result.ci95High = prediction + 196 * C6_SpecAdjustedStd
             /\ u_result.ci95High - u_result.ci95Low >= 2 * 196 * 100
        ELSE /\ u_result.confidence_interval_95.low
                   = Round2(prediction - 196 * C6_SpecAdjustedStd)
             /\ u_result.confidence_interval_95.high
                   = Round2(prediction + 196 * C6_SpecAdjustedStd)
             /\ u_result.confidence_interval_95.high
                   - u_result.confidence_interval_95.low >= 2 * 196 * 10

\* C6 amended: the runner's prediction block has ci95Low/ci95High = the point
\* estimate -/+ 1.96 times the adjusted std, a half-width of at least 0.196; the
\* standalone artifact's interval is the point estimate -/+ 1.96 times the
\* unadjusted std of the test residuals, as a percentage rounded to two decimals.
C6_IntervalPerEntryPoint ==
    u_pc = "output" =>
        IF u_entry = "run_experiment"
        THEN /\ u_result.pred12mReturn = prediction
             /\ u_result.ci95Low = prediction - 196 * C6_SpecAdjustedStd
             /\ u_result.ci95High = prediction + 196 * C6_SpecAdjustedStd
             /\ u_result.ci95High - u_result.ci95Low >= 2 * 196 * 100
        ELSE /\ u_result.predicted_return_pct = Round2(prediction)
             /\ u_result.confidence_interval_95.low
                   = Round2(prediction - 196 * base_std * 10)
             /\ u_result.confidence_interval_95.high
                   = Round2(prediction + 196 * base_std * 10)

\* The standalone artifact for a residual std of 0.05: the interval is +/- 9.8 %,
\* narrower than 1.96 * 0.10.
C6_Witness ==
    /\ u_pc = "output"
    /\ u_entry = "predict"
    /\ base_std = 5
    /\ u_result.confidence_interval_95.high - u_result.confidence_interval_95.low
          = 2 * 980

(***************************************************************************)
(* run_experiment.py: compute_non_overlapping_metrics.                     *)
(*                                                                         *)
(* A metric is the exact fraction num/den.  Targets and predictions are    *)
(* -1 or 1: the metrics read their signs and their differences.            *)
(***************************************************************************)
FORWARD_DAYS == 252

Rat(a, b) == [num |-> a, den |-> b]

\* A mutant of RangeStep: the sampling starts at row 1.
RECURSIVE RangeStepFromOne(_, _, _)
RangeStepFromOne(start, stop, step) ==
    IF start + 1 >= stop THEN <<>>
    ELSE <<start + 1>> \o RangeStepFromOne(start + step, stop, step)

\* list(range(start, stop, step)) for step >= 1
RECURSIVE RangeStep(_, _, _)
RangeStep(start, stop, step) ==
    IF start >= stop THEN <<>>
    ELSE <<start>> \o RangeStep(start + step, stop, step)

\* y[indices], with numpy's 0-based indices
Take(y, idx) == [j \in 1..Len(idx) |-> y[idx[j] + 1]]

\* run_experiment.py 200: len(indices) < 2
TooFewSamples(idx) == Len(idx) < 2

\* run_experiment.py 211-213: R^2 = 1 - ss_res / ss_tot, or 0.0 when ss_tot is 0;
\* ss_tot = (k * sum(y^2) - sum(y)^2) / k for k samples.
R2(yt, yp) ==
    LET k == Len(yt)
        ss_res == SumSeq([j \in 1..k |-> (yt[j] - yp[j]) * (yt[j] - yp[j])])
        k_ss_tot == k * SumSeq([j \in 1..k |-> yt[j] * yt[j]]) - SumSeq(yt) * SumSeq(yt)
    IN  IF k_ss_tot > 0 THEN Rat(k_ss_tot - k * ss_res, k_ss_tot) ELSE Rat(0, 1)

\* run_experiment.py 216: np.mean((y_true_no > 0) == (y_pred_no > 0))
DirectionAccuracy(yt, yp) ==
    Rat(Cardinality({j \in 1..Len(yt) : (yt[j] > 0) = (yp[j] > 0)}), Len(yt))

\* run_experiment.py 198-222
NonOverlappingMetrics(yt, yp, days) ==
    LET idx == RangeStep(0, Len(yt), days)
    IN  IF TooFewSamples(idx)
        THEN [indices |-> idx,
              r2NonOverlapping |-> Rat(0, 1),
              directionAccuracyNonOverlapping |-> Rat(0, 1),
              nonOverlappingSamples |-> Len(idx)]
        ELSE [indices |-> idx,
              r2NonOverlapping |-> R2(Take(yt, idx), Take(yp, idx)),
              directionAccuracyNonOverlapping |-> DirectionAccuracy(Take(yt, idx), Take(yp, idx)),
              nonOverlappingSamples |-> Len(idx)]

YVals == {-1, 1}

\* Test frames around one and two horizons of FORWARD_DAYS rows: the targets
\* alternate in sign, the predictions are positive.
LongFrameLens ==
    {FORWARD_DAYS - 1, FORWARD_DAYS, FORWARD_DAYS + 1, 2 * FORWARD_DAYS, 2 * FORWARD_DAYS + 1}

NoInit ==
    /\ no_pc = "called"
    /\ \/ /\ forward_days \in 1..MaxHorizon
          /\ \E n \in 0..MaxTestRows :
                /\ y_true \in [1..n -> YVals]
                /\ y_pred \in [1..n -> YVals]
       \/ /\ forward_days = FORWARD_DAYS
          /\ \E n \in LongFrameLens \cup (0..MaxTestRows) :
                /\ y_true = [i \in 1..n |-> IF i % 2 = 0 THEN 1 ELSE -1]
                /\ y_pred = [i \in 1..n |-> 1]
    /\ indices = <<>>
    /\ no_result = None

\* run_experiment.py 194-222
compute_non_overlapping_metrics ==
    /\ no_pc = "called"
    /\ LET out == NonOverlappingMetrics(y_true, y_pred, forward_days)
       IN  /\ indices' = out.indices
           /\ no_result' = [r2NonOverlapping |-> out.r2NonOverlapping,
                            directionAccuracyNonOverlapping |->
                                out.directionAccuracyNonOverlapping,
                            nonOverlappingSamples |-> out.nonOverlappingSamples]
    /\ no_pc' = "returned"
    /\ UNCHANGED <<y_true, y_pred, forward_days, notNoVars>>

NoNext == compute_non_overlapping_metrics

\* C8: for a test frame of n rows and a horizon H, the sampled rows are exactly
\* 0, H, 2H, ... below n (any two at least H apart); with fewer than 2 of them
\* the function returns r2NonOverlapping = 0 and directionAccuracyNonOverlapping
\* = 0 with the sample count; and with H = 252 and n = 252 exactly row 0 is
\* sampled and the neutral metrics are returned.
C8_NonOverlappingSamples ==
    no_pc = "returned" =>
        LET n == Len(y_true)
            H == forward_days
            sampled == {indices[j] : j \in 1..Len(indices)}
        IN  /\ sampled = {i \in 0..(n - 1) : i % H = 0}
            /\ Cardinality(sampled) = Len(indices)
            /\ \A a, b \in sampled : a < b => b - a >= H
            /\ no_result.nonOverlappingSamples = Cardinality(sampled)
            /\ Cardinality(sampled) < 2 =>
                  /\ no_result.r2NonOverlapping = Rat(0, 1)
                  /\ no_result.directionAccuracyNonOverlapping = Rat(0, 1)
            /\ (H = 252 /\ n = 252) =>
                  /\ indices = <<0>>
                  /\ no_result.r2NonOverlapping = Rat(0, 1)
                  /\ no_result.directionAccuracyNonOverlapping = Rat(0, 1)
                  /\ no_result.nonOverlappingSamples = 1

\* The metrics of a test frame of exactly FORWARD_DAYS rows: one sample, row 0.
C8_Witness ==
    /\ no_pc = "returned"
    /\ forward_days = 252
    /\ Len(y_true) = 252
    /\ indices = <<0>>
    /\ no_result.nonOverlappingSamples = 1

(***************************************************************************)
(* The three scripts, from the frame of valid rows to the output:          *)
(* run_experiment (run_experiment.py), main of predict.py and main of      *)
(* backtest.py.  ep_rows is len(df) after the incomplete rows are dropped; *)
(* ep_train_rows is the number of rows train_model was called with, -1     *)
(* while it has not been called.                                           *)
(***************************************************************************)
MIN_ROWS == 100

Scripts == {"run_experiment", "predict", "backtest"}

\* run_experiment.py 270, predict.py 125: len(df) < 100
TooFewRows(n) == n < MIN_ROWS

\* The rows of the three parts that split_data cuts from a frame of n rows.
Parts(n) == [train |-> TrainEnd(n), val |-> ValEnd(n) - TrainEnd(n), test |-> n - ValEnd(n)]

EpInit ==
    /\ ep_pc = "built"
    /\ ep_script \in Scripts
    /\ ep_rows \in 0..MaxRows
    /\ ep_train_rows = -1
    /\ ep_stdout = <<>>
    /\ ep_exit = -1

\* run_experiment.py 270-271: the ValueError is caught by main (373-375),
\* which prints {error} and exits with status 1.
run_experiment_row_check ==
    /\ ep_script = "run_experiment"
    /\ ep_pc = "built"
    /\ IF TooFewRows(ep_rows)
       THEN /\ ep_stdout' = Append(ep_stdout, "error")
            /\ ep_exit' = 1
            /\ ep_pc' = "done"
       ELSE /\ ep_pc' = "checked"
            /\ UNCHANGED <<ep_stdout, ep_exit>>
    /\ UNCHANGED <<ep_script, ep_rows, ep_train_rows, notEpVars>>

\* predict.py 125-126: a WARNING line is printed and main goes on.
predict_row_check ==
    /\ ep_script = "predict"
    /\ ep_pc = "built"
    /\ ep_stdout' = IF TooFewRows(ep_rows) THEN Append(ep_stdout, "WARNING") ELSE ep_stdout
    /\ ep_pc' = "checked"
    /\ UNCHANGED <<ep_script, ep_rows, ep_train_rows, ep_exit, notEpVars>>

\* run_experiment.py 274-282, predict.py 129-140, backtest.py 137-148:
\* split_data, standardize, train_model.  backtest.py comes here straight
\* from build_features: it has no row check.
split_standardize_train ==
    /\ \/ ep_pc = "checked"
       \/ ep_script = "backtest" /\ ep_pc = "built"
    /\ ep_train_rows' = Parts(ep_rows).train
    /\ ep_pc' = "trained"
    /\ UNCHANGED <<ep_script, ep_rows, ep_stdout, ep_exit, notEpVars>>

\* What a script prints at its end.
OutputOf(script) ==
    CASE script = "run_experiment" -> "result"
      [] script = "predict" -> "prediction"
      [] script = "backtest" -> "metrics"

\* run_experiment.py 284-340 and 371-372, predict.py 142-202, backtest.py
\* 150-160.  With an empty train, validation or test part numpy and torch
\* work on empty arrays: they yield NaN statistics or raise, so the script
\* either prints its output or dies with a traceback.
emit_output ==
    /\ ep_pc = "trained"
    /\ \/ /\ ep_stdout' = Append(ep_stdout, OutputOf(ep_script))
          /\ ep_exit' = 0
       \/ /\ \E part \in {"train", "val", "test"} : Parts(ep_rows)[part] = 0
          /\ ep_exit' = 1
          /\ UNCHANGED ep_stdout
    /\ ep_pc' = "done"
    /\ UNCHANGED <<ep_script, ep_rows, ep_train_rows, notEpVars>>

EpNext ==
    \/ run_experiment_row_check
    \/ predict_row_check
    \/ split_standardize_train
    \/ emit_output

InSeq(x, sq) == \E i \in 1..Len(sq) : sq[i] = x

\* C9: in every script, when fewer than 100 valid rows remain the run ends
\* with an error before splitting or training: train_model is never called
\* on such a frame and no prediction or metric is printed.
C9_InsufficientDataStops ==
    ep_rows < 100 =>
        /\ ep_train_rows = -1
        /\ \A out \in {"result", "prediction", "metrics"} : ~InSeq(out, ep_stdout)
        /\ ep_pc = "done" => (InSeq("error", ep_stdout) /\ ep_exit # 0)

(***************************************************************************)
(* run_experiment.py: main.                                                *)
(*                                                                         *)
(* A JSON value is a record: t is its type, items the elements of an       *)
(* array, the characters of a string or the keys of an object, n the value *)
(* of a number (1 or 0 for true or false).  Null is Python's None.         *)
(***************************************************************************)
JVal(t, items, n) == [t |-> t, items |-> items, n |-> n]
Absent == JVal("absent", <<>>, 0)
JNull == JVal("null", <<>>, 0)
JArr(items) == JVal("array", items, 0)
JStr(chars) == JVal("string", chars, 0)
JNum(n) == JVal("number", <<>>, n)
JBool(b) == JVal("bool", <<>>, IF b THEN 1 ELSE 0)
JDict(keys) == JVal("object", keys, 0)

\* shared.py 262
ALL_FEATURE_IDS ==
    {"mom_1m", "mom_3m", "mom_6m", "mom_12m", "px_sma50", "px_sma200",
     "sma50_sma200", "dist_52w_high", "vol_1m", "vol_3m", "vol_6m",
     "dd_current", "mdd_12m", "rsi_14", "bb_width"}

\* Python's truth value
Truthy(v) ==
    CASE v.t \in {"array", "string", "object"} -> Len(v.items) > 0
      [] v.t \in {"number", "bool"} -> v.n # 0
      [] OTHER -> FALSE

\* Whether Python's for loop accepts the value
Iterable(v) == v.t \in {"array", "string", "object"}

\* dict.get(key, default) on the top-level object
Get(obj, key, default) == IF obj[key].t = "absent" THEN default ELSE obj[key]

\* A mutant of Invalid: only the first identifier is looked up.
InvalidHead(v) == SelectSeq(SubSeq(v.items, 1, 1), LAMBDA f : f \notin ALL_FEATURE_IDS)

\* run_experiment.py 361: [f for f in feature_ids if f not in ALL_FEATURE_IDS]
Invalid(v) == SelectSeq(v.items, LAMBDA f : f \notin ALL_FEATURE_IDS)

\* run_experiment.py 253-340: the result, or the exception raised inside.
\* np.random.seed and torch.manual_seed refuse a seed that is not a
\* non-negative integer; build_selected_features (shared.py 273-275) refuses an
\* unknown id; feature_ids + ["target"] (268) refuses a dict.
RunExperiment(f, sd, e) ==
    IF ~(sd.t = "number" /\ sd.n >= 0) THEN [kind |-> "raise", exc |-> "TypeError"]
    ELSE IF ~e.data_exists THEN [kind |-> "raise", exc |-> "FileNotFoundError"]
    ELSE IF Invalid(f) # <<>> THEN [kind |-> "raise", exc |-> "ValueError"]
    ELSE IF f.t # "array" THEN [kind |-> "raise", exc |-> "TypeError"]
    ELSE IF TooFewRows(e.rows) THEN [kind |-> "raise", exc |-> "ValueError"]
    ELSE [kind |-> "result", exc |-> None]

\* The JSON object main prints: its keys, and the ids under validFeatures.
NoResponse == [keys |-> {}, validFeatures |-> {}]
\* run_experiment.py 348, 358, 374: {"error": ...}
ErrorResponse == [keys |-> {"error"}, validFeatures |-> {}]
\* run_experiment.py 363-366: {"error": ..., "validFeatures": ALL_FEATURE_IDS}
UnknownIdsResponse == [keys |-> {"error", "validFeatures"}, validFeatures |-> ALL_FEATURE_IDS]
\* run_experiment.py 320-340: the result of run_experiment
ResultResponse ==
    [keys |-> {"featureIds", "metrics", "prediction", "modelInfo", "dataInfo"},
     validFeatures |-> {}]

FeatureIdsValues ==
    {Absent, JNull, JArr(<<>>), JArr(<<"mom_1m">>), JArr(<<"mom_1m", "vol_1m">>),
     JArr(<<"bogus">>), JArr(<<"mom_1m", "bogus">>),
     JStr(<<>>), JStr(<<"r", "s", "i">>),
     JNum(0), JNum(5), JBool(TRUE), JBool(FALSE),
     JDict(<<>>), JDict(<<"rsi_14">>), JDict(<<"bogus">>)}

SeedValues == {Absent, JNum(7), JNum(-1), JStr(<<"7">>), JNull}

Objects ==
    [t : {"object"}, featureIds : FeatureIdsValues,
     feature_ids : {Absent, JNull, JArr(<<"rsi_14">>), JNum(5)}, seed : SeedValues]

NonObjects ==
    {JArr(<<>>), JArr(<<"mom_1m">>), JStr(<<"m">>), JNum(5), JBool(TRUE), JNull}

MainInit ==
    /\ m_pc = "start"
    /\ stdin \in {[t |-> "invalid"]} \cup NonObjects \cup Objects
    /\ env \in [data_exists : BOOLEAN, rows : {MIN_ROWS - 1, MIN_ROWS}]
    /\ input_data = None
    /\ feature_ids = None
    /\ seed = None
    /\ m_stdout = <<>>
    /\ m_exit = -1
    /\ m_exc = None
    /\ m_response = NoResponse
    /\ m_entered = FALSE

\* run_experiment.py 345-349
main_json_load ==
    /\ m_pc = "start"
    /\ IF stdin.t = "invalid"
       THEN /\ m_stdout' = Append(m_stdout, "error")
            /\ m_response' = ErrorResponse
            /\ m_exit' = 1
            /\ m_pc' = "done"
            /\ UNCHANGED input_data
       ELSE /\ input_data' = stdin
            /\ m_pc' = "loaded"
            /\ UNCHANGED <<m_stdout, m_exit, m_response>>
    /\ UNCHANGED <<stdin, env, feature_ids, seed, m_exc, m_entered, notMainVars>>

\* run_experiment.py 351-355: only a dict has .get; the AttributeError of any
\* other JSON value is caught nowhere.
main_read_fields ==
    /\ m_pc = "loaded"
    /\ IF input_data.t # "object"
       THEN /\ m_exc' = "AttributeError"
            /\ m_exit' = 1
            /\ m_pc' = "done"
            /\ UNCHANGED <<feature_ids, seed>>
       ELSE /\ feature_ids' =
                  LET first == Get(input_data, "featureIds", JNull)
                  IN  IF first = JNull THEN Get(input_data, "feature_ids", JArr(<<>>))
                      ELSE first
            /\ seed' = Get(input_data, "seed", JNum(42))
            /\ m_pc' = "read"
            /\ UNCHANGED <<m_exit, m_exc>>
    /\ UNCHANGED <<stdin, env, input_data, m_stdout, m_response, m_entered, notMainVars>>

\* run_experiment.py 357-367: the list comprehension of 361 is outside every
\* try block.
main_validate ==
    /\ m_pc = "read"
    /\ IF ~Truthy(feature_ids)
       THEN /\ m_stdout' = Append(m_stdout, "error")
            /\ m_response' = ErrorResponse
            /\ m_exit' = 1
            /\ m_pc' = "done"
            /\ UNCHANGED m_exc
       ELSE IF ~Iterable(feature_ids)
       THEN /\ m_exc' = "TypeError"
            /\ m_exit' = 1
            /\ m_pc' = "done"
            /\ UNCHANGED <<m_stdout, m_response>>
       ELSE IF Invalid(feature_ids) # <<>>
       THEN /\ m_stdout' = Append(m_stdout, "error")
            /\ m_response' = UnknownIdsResponse
            /\ m_exit' = 1
            /\ m_pc' = "done"
            /\ UNCHANGED m_exc
       ELSE /\ m_pc' = "valid"
            /\ UNCHANGED <<m_stdout, m_exit, m_exc, m_response>>
    /\ UNCHANGED <<stdin, env, input_data, feature_ids, seed, m_entered, notMainVars>>

\* run_experiment.py 369-375
main_run_experiment ==
    /\ m_pc = "valid"
    /\ IF RunExperiment(feature_ids, seed, env).kind = "result"
       THEN /\ m_stdout' = Append(m_stdout, "result")
            /\ m_response' = ResultResponse
            /\ m_exit' = 0
       ELSE /\ m_stdout' = Append(m_stdout, "error")
            /\ m_response' = ErrorResponse
            /\ m_exit' = 1
    /\ m_entered' = TRUE
    /\ m_pc' = "done"
    /\ UNCHANGED <<stdin, env, input_data, feature_ids, seed, m_exc, notMainVars>>

MainNext ==
    \/ main_json_load
    \/ main_read_fields
    \/ main_validate
    \/ main_run_experiment

\* C10: for every input on stdin, main ends either with a result printed and
\* exit status 0 or with {error: message} printed on standard output and a
\* non-zero exit status; no native exception propagates out of main.
C10_MainOutcomes ==
    m_pc = "done" =>
        /\ m_exc = None
        /\ \/ m_stdout = <<"result">> /\ m_exit = 0
           \/ m_stdout = <<"error">> /\ m_exit # 0

\* The featureIds main validates: the featureIds field, or feature_ids when
\* that one is missing or null.
RequestedIds ==
    IF Get(stdin, "featureIds", JNull) = JNull
    THEN Get(stdin, "feature_ids", JArr(<<>>))
    ELSE stdin.featureIds

\* C11: a request whose featureIds list holds at least one id outside the
\* registry gets an error response that lists all valid ids and a non-zero
\* exit status, and run_experiment is never entered for it.
C11_UnknownIdRejected ==
    (/\ stdin.t = "object"
     /\ RequestedIds.t = "array"
     /\ \E i \in 1..Len(RequestedIds.items) : RequestedIds.items[i] \notin ALL_FEATURE_IDS)
    => /\ ~m_entered
       /\ m_pc = "done" =>
             /\ m_stdout = <<"error">>
             /\ "error" \in m_response.keys
             /\ m_response.validFeatures = ALL_FEATURE_IDS
             /\ m_exit # 0
             /\ m_exc = None

\* A request for a known and an unknown id, answered.
C11_Witness ==
    /\ m_pc = "done"
    /\ stdin.t = "object"
    /\ stdin.featureIds = JArr(<<"mom_1m", "bogus">>)
    /\ m_response = UnknownIdsResponse
    /\ m_exit = 1

\* C12: a request whose featureIds is missing or empty gets an error object
\* with both fields of the documented shape, the error string and the
\* validFeatures list of the registry's ids.
C12_EmptyIdsErrorShape ==
    (/\ m_pc = "done"
     /\ stdin.t = "object"
     /\ RequestedIds \in {JArr(<<>>), JNull})
    => /\ m_response.keys = {"error", "validFeatures"}
       /\ m_response.validFeatures = ALL_FEATURE_IDS

(***************************************************************************)
(* run_experiment.py: set_seed and what draws from the generator after it. *)
(*                                                                         *)
(* torch's default generator is a state in 0..MaxRng that a draw advances; *)
(* the model's parameters are a number in 0..MaxParam and the validation   *)
(* loss is a function of them.  The arithmetic is that of one device and   *)
(* one build: equal operands give equal results.                           *)
(***************************************************************************)
RngStates == 0..MaxRng

\* A mutant of ManualSeed: the generator keeps its state.
ManualSeedKeep(state, sd) == state

\* run_experiment.py 48: torch.manual_seed(seed)
ManualSeed(state, sd) == (7 * sd + 1) % (MaxRng + 1)

\* One draw: the value drawn and the generator's next state.
Draw(state) == [value |-> state, next |-> (5 * state + 3) % (MaxRng + 1)]

\* shared.py 161: MLP(...) initializes its parameters from the generator.
InitParams(state) == [params |-> Draw(state).value % (MaxParam + 1), rng |-> Draw(state).next]

\* shared.py 171-184: one epoch of one batch; randperm and the dropout masks of
\* the forward pass draw from the generator, optimizer.step() moves the
\* parameters.
TrainEpoch(params, state) ==
    LET perm == Draw(state)
        mask == Draw(perm.next)
    IN  [indices |-> perm.value,
         params |-> (3 * params + perm.value + 2 * mask.value + 1) % (MaxParam + 1),
         rng |-> mask.next]

\* shared.py 186-190: the validation loss, in eval mode (no dropout)
ValLoss(params) == params

\* run_experiment.py 155-157: the forward prediction, in eval mode
Forward(params) == 2 * params - MaxParam

EmptyTrace == [init |-> -1, shuffles |-> <<>>, epochs |-> 0, pred12mReturn |-> 0]

SeedInit ==
    /\ sd_pc = "called"
    /\ sd_run = 1
    /\ sd_seed \in 0..MaxSeed
    /\ rng \in RngStates
    /\ sd_params = -1
    /\ sd_epoch = 0
    /\ sd_best = MaxParam + 1
    /\ sd_patience = 0
    /\ sd_cur = EmptyTrace
    /\ sd_trace = <<>>
    /\ sd_seeded = FALSE
    /\ sd_draws = 0
    /\ sd_rng0 = <<rng>>

\* run_experiment.py 255 and 45-50: the first statement of run_experiment
set_seed ==
    /\ sd_pc = "called"
    /\ rng' = ManualSeed(rng, sd_seed)
    /\ sd_seeded' = TRUE
    /\ sd_pc' = "seeded"
    /\ UNCHANGED <<sd_run, sd_seed, sd_params, sd_epoch, sd_best, sd_patience, sd_cur,
                   sd_trace, sd_draws, sd_rng0, notSeedVars>>

\* run_experiment.py 258-279 draw nothing; shared.py 161-167: the model is built
\* and the loop variables are set.
init_model ==
    /\ sd_pc = "seeded"
    /\ sd_params' = InitParams(rng).params
    /\ rng' = InitParams(rng).rng
    /\ sd_cur' = [sd_cur EXCEPT !.init = InitParams(rng).params]
    /\ sd_epoch' = 0
    /\ sd_best' = MaxParam + 1
    /\ sd_patience' = 0
    /\ sd_draws' = sd_draws + 1
    /\ sd_pc' = "training"
    /\ UNCHANGED <<sd_run, sd_seed, sd_trace, sd_seeded, sd_rng0, notSeedVars>>

\* shared.py 171-200: one pass of the epoch loop
train_epoch ==
    /\ sd_pc = "training"
    /\ sd_epoch < EPOCHS
    /\ LET ep == TrainEpoch(sd_params, rng)
           loss == ValLoss(ep.params)
           counter == IF Improved(loss, sd_best) THEN 0 ELSE sd_patience + 1
       IN  /\ sd_params' = ep.params
           /\ rng' = ep.rng
           /\ sd_cur' = [sd_cur EXCEPT !.shuffles = Append(@, ep.indices),
                                       !.epochs = @ + 1]
           /\ sd_best' = IF Improved(loss, sd_best) THEN loss ELSE sd_best
           /\ sd_patience' = counter
           /\ sd_epoch' = sd_epoch + 1
           /\ sd_pc' = IF (~Improved(loss, sd_best) /\ PatienceExhausted(counter))
                           \/ sd_epoch + 1 = EPOCHS
                       THEN "trained" ELSE "training"
    /\ sd_draws' = sd_draws + 2
    /\ UNCHANGED <<sd_run, sd_seed, sd_trace, sd_seeded, sd_rng0, notSeedVars>>

\* shared.py 202-205 and run_experiment.py 284-340: the model is returned and
\* the result is built from it.
return_result ==
    /\ sd_pc = "trained"
    /\ sd_trace' = Append(sd_trace, [sd_cur EXCEPT !.pred12mReturn = Forward(sd_params)])
    /\ sd_pc' = "returned"
    /\ UNCHANGED <<sd_run, sd_seed, rng, sd_params, sd_epoch, sd_best, sd_patience,
                   sd_cur, sd_seeded, sd_draws, sd_rng0, notSeedVars>>

\* The second run: the same seed and the same prices, in a process whose
\* generator is in any state.
run_again ==
    /\ sd_pc = "returned"
    /\ sd_run = 1
    /\ sd_run' = 2
    /\ rng' \in RngStates
    /\ sd_cur' = EmptyTrace
    /\ sd_params' = -1
    /\ sd_seeded' = FALSE
    /\ sd_draws' = 0
    /\ sd_rng0' = Append(sd_rng0, rng')
    /\ sd_pc' = "called"
    /\ UNCHANGED <<sd_seed, sd_epoch, sd_best, sd_patience, sd_trace, notSeedVars>>

SeedNext ==
    \/ set_seed
    \/ init_model
    \/ train_epoch
    \/ return_result
    \/ run_again

\* C13: two runs of run_experiment on the same prices with the same featureIds
\* and the same seed have the same initial parameters, the same shuffle order in
\* every epoch, the same number of epochs and the same pred12mReturn; and the
\* generator is seeded before anything is drawn from it.
C13_SeedDeterminism ==
    /\ Len(sd_trace) = 2 =>
          /\ sd_trace[1].init = sd_trace[2].init
          /\ sd_trace[1].shuffles = sd_trace[2].shuffles
          /\ sd_trace[1].epochs = sd_trace[2].epochs
          /\ sd_trace[1].pred12mReturn = sd_trace[2].pred12mReturn
    /\ sd_draws > 0 => sd_seeded

\* Two finished runs that started with the generator in different states and
\* trained past the first PATIENCE epochs.
C13_Witness ==
    /\ Len(sd_trace) = 2
    /\ sd_rng0[1] # sd_rng0[2]
    /\ sd_trace[2].epochs > PATIENCE + 1
    /\ sd_trace[2].init >= 0

(***************************************************************************)
(* shared.py: the feature columns and the target.                          *)
(*                                                                         *)
(* A column maps the rows 0..n-1 to cells.  A cell says whether the value  *)
(* is NaN (na) and which prices it was computed from: lo and hi are the    *)
(* earliest and the latest price index read, hi < lo when none was read.   *)
(* Prices are positive, so no division gives NaN or infinity.              *)
(***************************************************************************)
LAGS == 20
MA_SHORT == 10
MA_LONG == 50
VOL_WINDOW == 20

Cell(na, lo, hi) == [na |-> na, lo |-> lo, hi |-> hi]
\* The NaN a shift or a short window puts in: computed from no price.
NaCell == Cell(TRUE, 0, -1)
\* A constant
ConstCell == Cell(FALSE, 0, -1)

\* The cell of an arithmetic expression over two cells
Join(a, b) ==
    [na |-> a.na \/ b.na,
     lo |-> IF a.hi < a.lo THEN b.lo ELSE IF b.hi < b.lo THEN a.lo ELSE Min(a.lo, b.lo),
     hi |-> IF a.hi < a.lo THEN b.hi ELSE IF b.hi < b.lo THEN a.hi ELSE Max(a.hi, b.hi)]

\* The cell computed from the rows i..j of a column
RECURSIVE JoinRows(_, _, _)
JoinRows(col, i, j) ==
    IF i > j THEN ConstCell
    ELSE IF i = j THEN col[i]
    ELSE Join(JoinRows(col, i, (i + j) \div 2), JoinRows(col, (i + j) \div 2 + 1, j))

\* df["price"] of a frame of n rows
PriceCol(n) == [t \in 0..(n - 1) |-> Cell(FALSE, t, t)]

\* Series.shift(k): row t takes the value of row t - k
Shift(col, k) == [t \in DOMAIN col |-> IF (t - k) \in DOMAIN col THEN col[t - k] ELSE NaCell]

\* a op b, row by row
Arith(a, b) == [t \in DOMAIN a |-> Join(a[t], b[t])]

\* A mutant of PctChange: the change to the value k rows ahead.
PctChangeAhead(col, k) == Arith(col, Shift(col, -k))

\* Series.pct_change(k), Series.diff(): x[t] against x[t - k]
PctChange(col, k) == Arith(col, Shift(col, k))

\* Series.rolling(w).mean() / .std() / .max() / .apply(): the rows t-w+1..t,
\* NaN unless the window holds w values
Rolling(col, w) ==
    [t \in DOMAIN col |->
        IF t - w + 1 < 0 THEN [JoinRows(col, 0, t) EXCEPT !.na = TRUE]
        ELSE JoinRows(col, t - w + 1, t)]

\* Series.cummax(): the rows 0..t
CumMax(col) == [t \in DOMAIN col |-> JoinRows(col, 0, t)]

\* Series.where(cond, 0.0): the NaN of row 0 fails the condition and becomes 0.0
WhereElseZero(col) == [t \in DOMAIN col |-> [col[t] EXCEPT !.na = FALSE]]

\* shared.py 212-213: loss.replace(0, np.nan) -- the mean loss of the window is
\* 0 when no price of the window is below its predecessor.
ZeroLoss(p, t, period) ==
    \A i \in Max(1, t - period + 1)..t : ~(p[i + 1] < p[i])

\* shared.py 209-215
compute_rsi(p, period) ==
    LET delta == PctChange(PriceCol(Len(p)), 1)
        \* delta.where(delta > 0, 0.0) and -delta.where(delta < 0, 0.0)
        gain == Rolling(WhereElseZero(delta), period)
        loss == Rolling(WhereElseZero(delta), period)
    IN  [t \in DOMAIN delta |->
            [Join(gain[t], loss[t]) EXCEPT !.na = @ \/ ZeroLoss(p, t, period)]]

\* shared.py 218-224
compute_bb_width(p, period, num_std) ==
    LET sma == Rolling(PriceCol(Len(p)), period)
        std_ == Rolling(PriceCol(Len(p)), period)
        upper == Arith(sma, std_)
        lower == Arith(sma, std_)
    IN  Arith(Arith(upper, lower), sma)

\* shared.py 227-233
compute_rolling_mdd(p, window) == Rolling(PriceCol(Len(p)), window)

\* shared.py 237-260
FEATURE_REGISTRY(id, p) ==
    LET price == PriceCol(Len(p))
    IN  CASE id = "mom_1m" -> PctChange(price, 21)
          [] id = "mom_3m" -> PctChange(price, 63)
          [] id = "mom_6m" -> PctChange(price, 126)
          [] id = "mom_12m" -> PctChange(price, 252)
          [] id = "px_sma50" -> Arith(price, Rolling(price, 50))
          [] id = "px_sma200" -> Arith(price, Rolling(price, 200))
          [] id = "sma50_sma200" -> Arith(Rolling(price, 50), Rolling(price, 200))
          [] id = "dist_52w_high" -> Arith(price, Rolling(price, 252))
          [] id = "vol_1m" -> Rolling(PctChange(price, 1), 21)
          [] id = "vol_3m" -> Rolling(PctChange(price, 1), 63)
          [] id = "vol_6m" -> Rolling(PctChange(price, 1), 126)
          [] id = "dd_current" -> Arith(price, CumMax(price))
          [] id = "mdd_12m" -> compute_rolling_mdd(p, 252)
          [] id = "rsi_14" -> compute_rsi(p, 14)
          [] id = "bb_width" -> compute_bb_width(p, 20, 2)

\* shared.py 83-87: get_feature_cols
LagNames ==
    <<
      "ret_lag1", "ret_lag2", "ret_lag3", "ret_lag4", "ret_lag5",
      "ret_lag6", "ret_lag7", "ret_lag8", "ret_lag9", "ret_lag10",
      "ret_lag11", "ret_lag12", "ret_lag13", "ret_lag14", "ret_lag15",
      "ret_lag16", "ret_lag17", "ret_lag18", "ret_lag19", "ret_lag20"
    >>
get_feature_cols == LagNames \o <<"ma_ratio_short", "ma_ratio_long", "volatility">>

SeqSet(sq) == {sq[i] : i \in 1..Len(sq)}

\* shared.py 57-80: the columns build_base_features adds to the price frame
build_base_features(p) ==
    LET price == PriceCol(Len(p))
        ret == PctChange(price, 1)
        ma_short == Rolling(price, MA_SHORT)
        ma_long == Rolling(price, MA_LONG)
    IN  [c \in SeqSet(LagNames)
              \cup {"ret", "ma_short", "ma_long", "ma_ratio_short", "ma_ratio_long", "volatility"} |->
            CASE c = "ret" -> ret
              [] c = "ma_short" -> ma_short
              [] c = "ma_long" -> ma_long
              [] c = "ma_ratio_short" -> Arith(price, ma_short)
              [] c = "ma_ratio_long" -> Arith(price, ma_long)
              [] c = "volatility" -> Rolling(ret, VOL_WINDOW)
              [] OTHER -> Shift(ret, CHOOSE i \in 1..LAGS : LagNames[i] = c)]

\* shared.py 265-281: the columns build_selected_features adds
SelectedFeatures(p, ids) == [c \in SeqSet(ids) |-> FEATURE_REGISTRY(c, p)]

\* shared.py 287, predict.py 40: price.shift(-forward_days) / price - 1
ForwardTarget(p, days) == Arith(Shift(PriceCol(Len(p)), -days), PriceCol(Len(p)))

\* backtest.py 37: df["ret"].shift(-1)
NextDayTarget(p) == Shift(PctChange(PriceCol(Len(p)), 1), -1)

\* A frame with one more column
WithColumn(fr, name, col) ==
    [c \in DOMAIN fr \cup {name} |-> IF c = name THEN col ELSE fr[c]]

\* A mutant of Complete: a row with one defined column is kept.
CompleteAny(fr, subset, t) == \E c \in subset : ~fr[c][t].na

\* Whether dropna keeps row t: no column of the subset is NaN there
Complete(fr, subset, t) == \A c \in subset : ~fr[c][t].na

\* DataFrame.dropna(subset=...).reset_index(drop=True): the price indices of
\* the rows kept, in their order
DropNa(fr, subset, n) ==
    SelectSeq([i \in 1..n |-> i - 1], LAMBDA t : Complete(fr, subset, t))

\* The price series: positive and dated in increasing order.  rising never
\* falls, zigzag falls every other day, peak rises for 40 days, falls for 40
\* days and rises after that.
PricePatterns == {"rising", "zigzag", "peak"}
PriceSeries(pattern, n) ==
    [i \in 1..n |->
        CASE pattern = "rising" -> 100 + i
          [] pattern = "zigzag" -> 100 + (i % 2)
          [] pattern = "peak" -> IF i <= 40 THEN 100 + i
                                 ELSE IF i <= 80 THEN 180 - i
                                 ELSE 20 + i]

SeriesLens == {0, 1, MA_LONG + 2, FORWARD_DAYS + 30, 2 * FORWARD_DAYS + 1, MaxPrices}

\* The featureIds of a request: each id alone, two pairs, and all of them.
Requests ==
    {<<id>> : id \in ALL_FEATURE_IDS}
        \cup {<<"mom_1m", "rsi_14">>, <<"mom_12m", "dd_current">>,
              <<"mom_1m", "mom_3m", "mom_6m", "mom_12m", "px_sma50", "px_sma200",
                "sma50_sma200", "dist_52w_high", "vol_1m", "vol_3m", "vol_6m",
                "dd_current", "mdd_12m", "rsi_14", "bb_width">>}

FrameInit ==
    /\ ff_pc = "loaded"
    /\ \/ ff_script = "run_experiment" /\ ff_ids \in Requests
       \/ ff_script \in {"predict", "backtest"} /\ ff_ids = get_feature_cols
    /\ \E pattern \in PricePatterns, n \in SeriesLens : prices = PriceSeries(pattern, n)
    /\ frame = <<>>
    /\ rows = <<>>
    /\ ff_train = <<>>
    /\ ff_val = <<>>
    /\ ff_test = <<>>

\* run_experiment.py 264
build_selected_features ==
    /\ ff_script = "run_experiment"
    /\ ff_pc = "loaded"
    /\ frame' = SelectedFeatures(prices, ff_ids)
    /\ ff_pc' = "features"
    /\ UNCHANGED <<ff_script, ff_ids, prices, rows, ff_train, ff_val, ff_test, notFrameVars>>

\* run_experiment.py 265
add_forward_target ==
    /\ ff_script = "run_experiment"
    /\ ff_pc = "features"
    /\ frame' = WithColumn(frame, "target", ForwardTarget(prices, FORWARD_DAYS))
    /\ ff_pc' = "target"
    /\ UNCHANGED <<ff_script, ff_ids, prices, rows, ff_train, ff_val, ff_test, notFrameVars>>

\* run_experiment.py 268: df.dropna(subset=feature_ids + ["target"])
run_experiment_dropna ==
    /\ ff_script = "run_experiment"
    /\ ff_pc = "target"
    /\ rows' = DropNa(frame, SeqSet(ff_ids) \cup {"target"}, Len(prices))
    /\ ff_pc' = "valid_rows"
    /\ UNCHANGED <<ff_script, ff_ids, prices, frame, ff_train, ff_val, ff_test, notFrameVars>>

\* predict.py 35-45: base features, 252-day target, dropna() over every column
build_prediction_features ==
    /\ ff_script = "predict"
    /\ ff_pc = "loaded"
    /\ LET fr == WithColumn(build_base_features(prices), "target",
                            ForwardTarget(prices, FORWARD_DAYS))
       IN  /\ frame' = fr
           /\ rows' = DropNa(fr, DOMAIN fr, Len(prices))
    /\ ff_pc' = "valid_rows"
    /\ UNCHANGED <<ff_script, ff_ids, prices, ff_train, ff_val, ff_test, notFrameVars>>

\* backtest.py 32-42: base features, next-day target, dropna() over every column
build_features ==
    /\ ff_script = "backtest"
    /\ ff_pc = "loaded"
    /\ LET fr == WithColumn(build_base_features(prices), "target", NextDayTarget(prices))
       IN  /\ frame' = fr
           /\ rows' = DropNa(fr, DOMAIN fr, Len(prices))
    /\ ff_pc' = "valid_rows"
    /\ UNCHANGED <<ff_script, ff_ids, prices, ff_train, ff_val, ff_test, notFrameVars>>

\* shared.py 91-101, called at run_experiment.py 274, predict.py 129,
\* backtest.py 137.  (run_experiment refuses fewer than 100 rows before it.)
split_frame ==
    /\ ff_pc = "valid_rows"
    /\ ~(ff_script = "run_experiment" /\ TooFewRows(Len(rows)))
    /\ ff_train' = Slice(rows, 0, TrainEnd(Len(rows)))
    /\ ff_val' = Slice(rows, TrainEnd(Len(rows)), ValEnd(Len(rows)))
    /\ ff_test' = SliceFrom(rows, ValEnd(Len(rows)))
    /\ ff_pc' = "split"
    /\ UNCHANGED <<ff_script, ff_ids, prices, frame, rows, notFrameVars>>

FrameNext ==
    \/ build_selected_features
    \/ add_forward_target
    \/ run_experiment_dropna
    \/ build_prediction_features
    \/ build_features
    \/ split_frame

\* The feature columns of the frame: every column but the target.
FeatureColumns == DOMAIN frame \ {"target"}

\* C14: for every feature of FEATURE_REGISTRY and every base feature of
\* build_base_features the value at row t is computed from prices at indices
\* <= t only, so a change of a later price leaves it unchanged; only the target
\* column reads prices at indices > t.
C14_NoLookahead ==
    ff_pc \in {"features", "target", "valid_rows", "split"} =>
        /\ \A c \in FeatureColumns : \A t \in DOMAIN frame[c] : frame[c][t].hi <= t
        /\ "target" \in DOMAIN frame =>
              \A t \in DOMAIN frame["target"] :
                  ~frame["target"][t].na => frame["target"][t].hi > t

\* The 12-month drawdown and the target of a long series: at row 252 the
\* feature reads the prices 1..252 and the target reads the price 504.
C14_Witness ==
    /\ ff_pc = "target"
    /\ ff_ids = <<"mdd_12m">>
    /\ Len(prices) > 2 * FORWARD_DAYS
    /\ frame["mdd_12m"][252] = Cell(FALSE, 1, 252)
    /\ frame["target"][252] = Cell(FALSE, 252, 504)

\* C16: no price of the validation or test period influences a training row:
\* every price index that the features or the forward target of a train row
\* depend on is strictly earlier than the price index of the first validation
\* row.
C16_TrainReadsNoLaterPrice ==
    (ff_pc = "split" /\ ff_train # <<>> /\ ff_val # <<>>) =>
        \A i \in 1..Len(ff_train) : \A c \in DOMAIN frame :
            frame[c][ff_train[i]].hi < ff_val[1]

\* The requested columns of the frame: the features asked for and the target.
RequestedColumns == SeqSet(ff_ids) \cup {"target"}

\* C17: a row of the price series reaches the splitter exactly when every
\* requested feature and the target are defined at it; rows with an undefined
\* feature (short history, RSI with zero loss) or an undefined target (the last
\* horizon rows) are dropped, the rows kept are in their original order, and
\* every row of train, validation and test has all its columns.
C17_CompleteRowsOnly ==
    ff_pc \in {"valid_rows", "split"} =>
        /\ SeqSet(rows) =
              {t \in 0..(Len(prices) - 1) : \A c \in RequestedColumns : ~frame[c][t].na}
        /\ \A i \in 1..(Len(rows) - 1) : rows[i] < rows[i + 1]
        /\ LET horizon == IF ff_script = "backtest" THEN 1 ELSE FORWARD_DAYS
           IN  \A i \in 1..Len(rows) : rows[i] < Len(prices) - horizon
        /\ ff_pc = "split" =>
              /\ ff_train \o ff_val \o ff_test = rows
              /\ \A t \in SeqSet(ff_train) \cup SeqSet(ff_val) \cup SeqSet(ff_test) :
                    \A c \in RequestedColumns : ~frame[c][t].na

\* RSI and 1-month momentum on the series that peaks: the rows 40..92 are kept
\* (the windows of 14 rows that hold a fall), row 93 with its full history and
\* its target is dropped for its zero loss.
C17_Witness ==
    /\ ff_pc = "valid_rows"
    /\ ff_ids = <<"mom_1m", "rsi_14">>
    /\ Len(prices) > 2 * FORWARD_DAYS
    /\ rows # <<>>
    /\ rows[1] = 40
    /\ rows[Len(rows)] = 92
    /\ ~frame["mom_1m"][93].na
    /\ ~frame["target"][93].na
    /\ frame["rsi_14"][93].na

(***************************************************************************)
(* Specifications: one per part of the pipeline; the parts a specification *)
(* does not run stay idle.                                                 *)
(***************************************************************************)
SplitIdle ==
    /\ split_pc = "idle"
    /\ df = <<>>
    /\ train = <<>>
    /\ val = <<>>
    /\ test = <<>>

StdIdle ==
    /\ s_pc = "idle"
    /\ s_entry = "idle"
    /\ s_train = <<>>
    /\ s_val = <<>>
    /\ s_test = <<>>
    /\ s_latest = <<>>
    /\ X_train = None
    /\ X_val = None
    /\ X_test = None
    /\ mean = None
    /\ std = None
    /\ features_std = None

TrainIdle ==
    /\ t_pc = "idle"
    /\ t_len = 0
    /\ storage = None
    /\ best_val_loss = 0
    /\ patience_counter = 0
    /\ best_state = None
    /\ epoch = 0
    /\ batch_i = 0
    /\ epochs_run = 0
    /\ g_best_params = -1
    /\ g_min_loss = 0
    /\ g_streak = 0

BtIdle ==
    /\ bt_pc = "idle"
    /\ bt_impl = "idle"
    /\ predictions = <<>>
    /\ bt_df = None
    /\ returns = <<>>
    /\ bt_metrics = NoMetrics

UncIdle ==
    /\ u_pc = "idle"
    /\ u_entry = "idle"
    /\ base_std = 0
    /\ z_scores = <<>>
    /\ uncertainty = None
    /\ pred_std = -1
    /\ prediction = 0
    /\ u_result = None

NoIdle ==
    /\ no_pc = "idle"
    /\ y_true = <<>>
    /\ y_pred = <<>>
    /\ forward_days = 0
    /\ indices = <<>>
    /\ no_result = None

EpIdle ==
    /\ ep_pc = "idle"
    /\ ep_script = None
    /\ ep_rows = 0
    /\ ep_train_rows = -1
    /\ ep_stdout = <<>>
    /\ ep_exit = -1

MainIdle ==
    /\ m_pc = "idle"
    /\ stdin = None
    /\ env = None
    /\ input_data = None
    /\ feature_ids = None
    /\ seed = None
    /\ m_stdout = <<>>
    /\ m_exit = -1
    /\ m_exc = None
    /\ m_response = NoResponse
    /\ m_entered = FALSE

SeedIdle ==
    /\ sd_pc = "idle"
    /\ sd_run = 0
    /\ sd_seed = 0
    /\ rng = 0
    /\ sd_params = -1
    /\ sd_epoch = 0
    /\ sd_best = 0
    /\ sd_patience = 0
    /\ sd_cur = EmptyTrace
    /\ sd_trace = <<>>
    /\ sd_seeded = FALSE
    /\ sd_draws = 0
    /\ sd_rng0 = <<>>

FrameIdle ==
    /\ ff_pc = "idle"
    /\ ff_script = None
    /\ ff_ids = <<>>
    /\ prices = <<>>
    /\ frame = <<>>
    /\ rows = <<>>
    /\ ff_train = <<>>
    /\ ff_val = <<>>
    /\ ff_test = <<>>

InitSplit ==
    SplitInit /\ StdIdle /\ TrainIdle /\ BtIdle /\ UncIdle /\ NoIdle /\ EpIdle /\ MainIdle /\ SeedIdle
    /\ FrameIdle
SpecSplit == InitSplit /\ [][SplitNext]_vars

InitStd ==
    StdInit /\ SplitIdle /\ TrainIdle /\ BtIdle /\ UncIdle /\ NoIdle /\ EpIdle /\ MainIdle /\ SeedIdle
    /\ FrameIdle
SpecStd == InitStd /\ [][StdNext]_vars

InitTrain ==
    TrainInit /\ SplitIdle /\ StdIdle /\ BtIdle /\ UncIdle /\ NoIdle /\ EpIdle /\ MainIdle /\ SeedIdle
    /\ FrameIdle
SpecTrain == InitTrain /\ [][TrainNext]_vars
\* The program is sequential: a step that can be taken is taken.
FairSpecTrain == SpecTrain /\ WF_vars(TrainNext)

InitBt ==
    BtInit /\ SplitIdle /\ StdIdle /\ TrainIdle /\ UncIdle /\ NoIdle /\ EpIdle /\ MainIdle /\ SeedIdle
    /\ FrameIdle
SpecBt == InitBt /\ [][BtNext]_vars

InitUnc ==
    UncInit /\ SplitIdle /\ StdIdle /\ TrainIdle /\ BtIdle /\ NoIdle /\ EpIdle /\ MainIdle /\ SeedIdle
    /\ FrameIdle
SpecUnc == InitUnc /\ [][UncNext]_vars

InitNo ==
    NoInit /\ SplitIdle /\ StdIdle /\ TrainIdle /\ BtIdle /\ UncIdle /\ EpIdle /\ MainIdle /\ SeedIdle
    /\ FrameIdle
SpecNo == InitNo /\ [][NoNext]_vars

InitEp ==
    EpInit /\ SplitIdle /\ StdIdle /\ TrainIdle /\ BtIdle /\ UncIdle /\ NoIdle /\ MainIdle /\ SeedIdle
    /\ FrameIdle
SpecEp == InitEp /\ [][EpNext]_vars

InitMain ==
    MainInit /\ SplitIdle /\ StdIdle /\ TrainIdle /\ BtIdle /\ UncIdle /\ NoIdle /\ EpIdle /\ SeedIdle
    /\ FrameIdle
SpecMain == InitMain /\ [][MainNext]_vars

InitSeed ==
    SeedInit /\ SplitIdle /\ StdIdle /\ TrainIdle /\ BtIdle /\ UncIdle /\ NoIdle /\ EpIdle /\ MainIdle
    /\ FrameIdle
SpecSeed == InitSeed /\ [][SeedNext]_vars

InitFrame ==
    FrameInit /\ SplitIdle /\ StdIdle /\ TrainIdle /\ BtIdle /\ UncIdle /\ NoIdle /\ EpIdle /\ MainIdle
    /\ SeedIdle
SpecFrame == InitFrame /\ [][FrameNext]_vars
====
